---- MODULE Spec2Model ----
(***************************************************************************)
(* The sheet/tab workspace and the data store of gzlb/dash, in its three   *)
(* front-end variants:                                                     *)
(*   "streamlit"  src/streamlit.py  (sheets and tabs can be deleted)       *)
(*   "new"        src/new.py        (Streamlit, no deletion)               *)
(*   "main"       src/main.py       (Dash, store keyed by filename)        *)
(* Indices are Python's: 0-based, and a negative index into a list counts  *)
(* from its end.  Sequences are TLA+'s: 1-based.                           *)
(*                                                                         *)
(* Two layers of operations are modelled.  The handlers of the front end   *)
(* (StreamlitApp.run, DashApp.update_layout, UploadTab) take their         *)
(* arguments from what the front end rendered.  The methods of             *)
(* SheetManager, TabFactory and DataManager are also called directly with  *)
(* arguments the front end never passes (an index out of range, a kind     *)
(* that is not registered): these are the ...Call actions.                 *)
(***************************************************************************)
EXTENDS Integers, Sequences, FiniteSets, TLC

VARIABLES
    variant,            \* which source file the session runs
    sheets,             \* SheetManager.sheets: a list of lists of tabs
    active_sheet_idx,   \* session_state["active_sheet_idx"] / DashApp.active_sheet
    tab_classes,        \* TabFactory._tab_classes: kind names, in insertion order
    next_tab_id,        \* the number of tab identities (uuid4) handed out so far
    data_map,           \* DataManager.data_map / .dataframes, in insertion order
    next_uid,           \* the number of source ids (uuid4) handed out so far
    ingested,           \* history: the tables of the successful ingests, in order
    last,               \* the last operation: its name, whether its arguments were valid, its outcome
    input_df,           \* the table a rendering tab got from aggregate_data()
    view,               \* what the tab's render pass chose, computed and showed
    uploaders,          \* widget state: tab identity -> the files its st.file_uploader holds
    rendered            \* what the last script run wrote in the main area

vars == <<variant, sheets, active_sheet_idx, tab_classes, next_tab_id,
          data_map, next_uid, ingested, last, input_df, view, uploaders, rendered>>

\* The workspace and the store: no operation of one touches the other.
workspace == <<sheets, active_sheet_idx, next_tab_id>>

store == <<data_map, next_uid, ingested>>

\* A tab's render pass, and the script run around it.
tab_pass == <<input_df, view, uploaders, rendered>>

----------------------------------------------------------------------------
(* Bounds of the model. *)

MaxSheets == 3

MaxTabIds == 3

MaxIngests == 3

\* The longest table handed to a rendering tab.
MaxRows == 2

\* Sheets and tab identities of a session in which whole script runs are
\* followed.
MaxAppSheets == 2

MaxAppTabs == 2

----------------------------------------------------------------------------
(* Python list helpers. *)

\* list.pop(i) for 0 <= i < len(list): the list without its element i.
PyPop(s, i) == SubSeq(s, 1, i) \o SubSeq(s, i + 2, Len(s))

\* range(len(list))
PyRange(s) == 0 .. (Len(s) - 1)

\* x in d, for a dict kept as the sequence of its keys
InKeys(x, d) == \E k \in 1 .. Len(d) : d[k] = x

----------------------------------------------------------------------------
(* The variants and their Tab subclasses. *)

Variants == {"streamlit", "new", "main"}

\* Tab.__subclasses__(): the classes deriving from Tab, in definition order.
TabSubclasses(v) ==
    IF v = "streamlit" THEN <<"UploadTab", "PlotTab", "AggregationTab">>
    ELSE <<"UploadTab", "PlotsTab">>

\* Mutant: the names are kept in a list, which takes a name again.
DiscoverInto_Append(classes, subs) == classes \o subs

\* TabFactory.discover_tabs: self._tab_classes[name] = subclass for each
\* subclass.  Assigning an existing key of a dict keeps the key's position.
RECURSIVE DiscoverInto(_, _)
DiscoverInto(classes, subs) ==
    IF subs = <<>> THEN classes
    ELSE DiscoverInto(IF InKeys(Head(subs), classes) THEN classes
                      ELSE Append(classes, Head(subs)),
                      Tail(subs))

discover_tabs(v, classes) == DiscoverInto(classes, TabSubclasses(v))

\* TabFactory.get_tab_options: the registered names, in order.
get_tab_options(classes) == { classes[k] : k \in 1 .. Len(classes) }

\* Every class name of some variant.
ClassNames == {"UploadTab", "PlotTab", "PlotsTab", "AggregationTab"}

\* Kind names passed in direct calls: a class of every variant, a class of
\* new.py and main.py only, and a name no variant registers.  "" is a Dash
\* dropdown with nothing selected.
KindInputs == {"UploadTab", "PlotsTab", "NoSuchTab", ""}

\* Sheet and tab indices a caller may pass.
IndexInputs == -1 .. MaxSheets

----------------------------------------------------------------------------
(* TabFactory and Tab. *)

\* The one DataManager of the session: st.session_state["data_manager"],
\* DashApp.data_manager.
SessionStore == "data_manager"

\* Mutant: every tab gets the same identity token.
NewTab_SameToken(kind, id) == [kind |-> kind, tab_id |-> 0, data_manager |-> SessionStore]

\* Mutant: every tab builds a DataManager of its own.
NewTab_OwnStore(kind, id) == [kind |-> kind, tab_id |-> id, data_manager |-> "own"]

\* Tab.__init__: a tab of class `kind` with a fresh identity token and a
\* reference to the DataManager it was given, which is the session's.
NewTab(kind, id) == [kind |-> kind, tab_id |-> id, data_manager |-> SessionStore]

\* Mutant: the membership test is missing.
create_tab_Unchecked(classes, kind, id) == [res |-> "ok", tab |-> NewTab(kind, id)]

\* TabFactory.create_tab: ValueError for a name that is not registered.
create_tab(classes, kind, id) ==
    IF ~InKeys(kind, classes)
    THEN [res |-> "ValueError", tab |-> NewTab("", -1)]
    ELSE [res |-> "ok", tab |-> NewTab(kind, id)]

----------------------------------------------------------------------------
(* SheetManager. *)

\* Mutant: the new sheet is inserted at the front.
add_sheet_AtFront(ss) == << <<>> >> \o ss

\* SheetManager.add_sheet
add_sheet(ss) == Append(ss, <<>>)

\* Mutant: pop() without the index, which removes the last sheet.
delete_sheet_PopLast(ss, index) ==
    IF 0 <= index /\ index < Len(ss) THEN SubSeq(ss, 1, Len(ss) - 1) ELSE ss

\* Mutant: the lower bound of the guard is missing, so that pop(-1) removes
\* the last sheet.
delete_sheet_NoLowerBound(ss, index) ==
    IF index < Len(ss) /\ index >= -Len(ss)
    THEN PyPop(ss, IF index < 0 THEN Len(ss) + index ELSE index)
    ELSE ss

\* SheetManager.delete_sheet (streamlit.py only)
delete_sheet(ss, index) ==
    IF 0 <= index /\ index < Len(ss) THEN PyPop(ss, index) ELSE ss

\* SheetManager.add_tab_to_sheet of streamlit.py: a silent no-op out of range.
add_tab_to_sheet_streamlit(ss, sheet_index, tab) ==
    IF 0 <= sheet_index /\ sheet_index < Len(ss)
    THEN [res |-> "ok",
          sheets |-> [ss EXCEPT ![sheet_index + 1] = Append(@, tab)]]
    ELSE [res |-> "ok", sheets |-> ss]

\* SheetManager.add_tab_to_sheet of new.py and main.py: IndexError when
\* sheet_index >= len(sheets); below that self.sheets[sheet_index] is Python's
\* indexing, where -len <= sheet_index < 0 counts from the end and anything
\* lower raises IndexError itself.
add_tab_to_sheet_dash(ss, sheet_index, tab) ==
    IF sheet_index >= Len(ss) THEN [res |-> "IndexError", sheets |-> ss]
    ELSE IF sheet_index >= 0
    THEN [res |-> "ok",
          sheets |-> [ss EXCEPT ![sheet_index + 1] = Append(@, tab)]]
    ELSE IF sheet_index >= -Len(ss)
    THEN [res |-> "ok",
          sheets |-> [ss EXCEPT ![Len(ss) + sheet_index + 1] = Append(@, tab)]]
    ELSE [res |-> "IndexError", sheets |-> ss]

add_tab_to_sheet(v, ss, sheet_index, tab) ==
    IF v = "streamlit" THEN add_tab_to_sheet_streamlit(ss, sheet_index, tab)
    ELSE add_tab_to_sheet_dash(ss, sheet_index, tab)

\* Mutant: the guard on tab_index is missing its lower bound, so that
\* pop(-1) removes the sheet's last tab.
delete_tab_from_sheet_NoLowerBound(ss, sheet_index, tab_index) ==
    IF 0 <= sheet_index /\ sheet_index < Len(ss)
    THEN LET tabs == ss[sheet_index + 1]
         IN  IF tab_index < Len(tabs) /\ tab_index >= -Len(tabs)
             THEN [ss EXCEPT ![sheet_index + 1] =
                      PyPop(@, IF tab_index < 0 THEN Len(tabs) + tab_index ELSE tab_index)]
             ELSE ss
    ELSE ss

\* SheetManager.delete_tab_from_sheet (streamlit.py only)
delete_tab_from_sheet(ss, sheet_index, tab_index) ==
    IF 0 <= sheet_index /\ sheet_index < Len(ss)
    THEN IF 0 <= tab_index /\ tab_index < Len(ss[sheet_index + 1])
         THEN [ss EXCEPT ![sheet_index + 1] = PyPop(@, tab_index)]
         ELSE ss
    ELSE ss

\* SheetManager.get_tabs_in_sheet
get_tabs_in_sheet(ss, sheet_index) ==
    IF 0 <= sheet_index /\ sheet_index < Len(ss) THEN ss[sheet_index + 1] ELSE <<>>

\* SheetManager.render_sheet: what is written, and the tabs rendered in order.
render_sheet(ss, sheet_index) ==
    IF sheet_index < 0 \/ sheet_index >= Len(ss)
    THEN [msg |-> "No sheet selected.", tabs |-> <<>>]
    ELSE IF ss[sheet_index + 1] = <<>>
    THEN [msg |-> "This sheet has no tabs.", tabs |-> <<>>]
    ELSE [msg |-> "tabs", tabs |-> ss[sheet_index + 1]]

\* The main area of run(): the active sheet when a sheet exists, else the
\* empty-workspace message.
render_active(ss, idx) ==
    IF Len(ss) > 0 THEN render_sheet(ss, idx)
    ELSE [msg |-> "No sheets to display.", tabs |-> <<>>]

\* SheetManager.render_sheet of new.py: st.tabs(tab_titles, key=...) is
\* called with a keyword st.tabs does not take, so a sheet with tabs ends
\* the run with a TypeError before any tab is rendered.
render_sheet_new(ss, sheet_index) ==
    IF sheet_index < 0 \/ sheet_index >= Len(ss)
    THEN [msg |-> "No sheet selected.", tabs |-> <<>>]
    ELSE IF ss[sheet_index + 1] = <<>>
    THEN [msg |-> "This sheet has no tabs.", tabs |-> <<>>]
    ELSE [msg |-> "TypeError", tabs |-> <<>>]

\* The main area of run() in streamlit.py and new.py.
render_main(v, ss, idx) ==
    IF Len(ss) = 0 THEN [msg |-> "No sheets to display.", tabs |-> <<>>]
    ELSE IF v = "new" THEN render_sheet_new(ss, idx)
    ELSE render_sheet(ss, idx)

\* t.tab_id[:8]: the first 8 characters of a token.  Tokens 2k and 2k+1
\* stand for two uuid4 strings that begin with the same 8 characters.
Prefix8(tab_id) == tab_id \div 2

\* f"{i+1}: {type(t).__name__} [{t.tab_id[:8]}]"
Title(pos, kind, prefix) == [pos |-> pos, kind |-> kind, prefix |-> prefix]

\* tab_titles: one title per tab, numbered from 1.
tab_titles(tabs) ==
    [k \in 1 .. Len(tabs) |-> Title(k, tabs[k].kind, Prefix8(tabs[k].tab_id))]

\* No uploader holds a file.
NoWidgetState == [id \in {} |-> <<>>]

\* What a script run wrote in the main area: the message, the titles given
\* to st.tabs and the tabs whose render was called, in call order.
Rendered(msg, titles, calls) == [msg |-> msg, titles |-> titles, calls |-> calls]

----------------------------------------------------------------------------
(* Uploaded files and pandas tables. *)

\* pd.RangeIndex(n): the row labels 0 .. n-1.
RangeIndex(n) == [k \in 1 .. n |-> k - 1]

\* A DataFrame: its column names in order, its rows (column name -> value)
\* and the index label of each row.
DataFrame(cols, rows, index) == [cols |-> cols, rows |-> rows, index |-> index]

\* A table as a decoder reads it: the rows are labelled 0 .. n-1.
Table(cols, rows) == DataFrame(cols, rows, RangeIndex(Len(rows)))

\* pd.DataFrame(): no columns, no rows.
EmptyTable == Table(<<>>, <<>>)

Date(y, m, d) == <<y, m, d>>

TableA ==
    Table(<<"date", "nominal", "region">>,
          << [date |-> Date(2023, 1, 5), nominal |-> 10, region |-> "X"] >>)

TableB ==
    Table(<<"date", "nominal", "region">>,
          << [date |-> Date(2023, 4, 9), nominal |-> 5, region |-> "Y"],
             [date |-> Date(2024, 7, 1), nominal |-> 7, region |-> "X"] >>)

Tables == {TableA, TableB}

\* A file name is its stem and its extension (everything from the last dot).
FileName(stem, ext) == [stem |-> stem, ext |-> ext]

FileNames ==
    { FileName("a", ".csv"), FileName("a", ".CSV"),
      FileName("b", ".xlsx"), FileName("notes", ".txt") }

\* str.lower() on the extensions that occur.
Lower(ext) ==
    IF ext = ".CSV" THEN ".csv"
    ELSE IF ext = ".XLSX" THEN ".xlsx"
    ELSE IF ext = ".TXT" THEN ".txt"
    ELSE ext

\* An uploaded file: its name, what its bytes are ("csv" text, an "xlsx"
\* workbook, or "corrupt": bytes neither decoder reads) and the table the
\* right decoder reads from them.
Files ==
    { [name |-> n, content |-> c, table |-> t] :
        n \in FileNames, c \in {"csv", "xlsx"}, t \in Tables }
    \cup { [name |-> n, content |-> "corrupt", table |-> EmptyTable] : n \in FileNames }

\* pd.read_csv / pd.read_excel: the table, or the decoder's exception.
read_csv(f) ==
    IF f.content = "csv" THEN [res |-> "ok", df |-> f.table]
    ELSE [res |-> "DecodeError", df |-> EmptyTable]

read_excel(f) ==
    IF f.content = "xlsx" THEN [res |-> "ok", df |-> f.table]
    ELSE [res |-> "DecodeError", df |-> EmptyTable]

----------------------------------------------------------------------------
(* DataManager. *)

\* One entry of the dict: its key, the original file name, the table.
Entry(key, name, df) == [key |-> key, name |-> name, df |-> df]

\* d[key] = value on a dict kept in insertion order: a new key is appended,
\* an existing key keeps its position and takes the new value.
DictSet(d, e) ==
    IF \E k \in 1 .. Len(d) : d[k].key = e.key
    THEN [k \in 1 .. Len(d) |-> IF d[k].key = e.key THEN e ELSE d[k]]
    ELSE Append(d, e)

\* Mutant: the entry is written before the decoder's result is looked at, so
\* that a failed decode leaves an entry with an empty table behind.
load_data_uuid_StoreFirst(d, uid, f, importable) ==
    LET filename == Lower(f.name.ext)
        decoded == IF filename = ".xlsx" THEN read_excel(f) ELSE read_csv(f)
    IN  IF filename \notin {".xlsx", ".csv"} THEN [res |-> "rejected", data |-> d]
        ELSE IF filename = ".xlsx" /\ ~importable
        THEN [res |-> "import_failed", data |-> d]
        ELSE [res |-> decoded.res,
              data |-> DictSet(d, Entry(uid, f.name, decoded.df))]

\* DataManager.load_data of streamlit.py and new.py: the table is stored
\* under a new uuid4.  `importable` is whether openpyxl can be imported: the
\* ImportError is caught and "" returned, as for an unsupported extension
\* ("rejected"); any other exception of a decoder leaves load_data.
load_data_uuid(d, uid, f, importable) ==
    LET filename == Lower(f.name.ext)
    IN  IF filename = ".xlsx"
        THEN IF ~importable THEN [res |-> "import_failed", data |-> d]
             ELSE IF read_excel(f).res # "ok"
             THEN [res |-> read_excel(f).res, data |-> d]
             ELSE [res |-> "ok", data |-> DictSet(d, Entry(uid, f.name, read_excel(f).df))]
        ELSE IF filename = ".csv"
        THEN IF read_csv(f).res # "ok"
             THEN [res |-> read_csv(f).res, data |-> d]
             ELSE [res |-> "ok", data |-> DictSet(d, Entry(uid, f.name, read_csv(f).df))]
        ELSE [res |-> "rejected", data |-> d]

\* DataManager.load_xlsx / load_csv of main.py: the table is stored under
\* the file name.
load_xlsx(d, f) ==
    IF read_excel(f).res # "ok" THEN [res |-> read_excel(f).res, data |-> d]
    ELSE [res |-> "ok", data |-> DictSet(d, Entry(f.name, f.name, read_excel(f).df))]

load_csv(d, f) ==
    IF read_csv(f).res # "ok" THEN [res |-> read_csv(f).res, data |-> d]
    ELSE [res |-> "ok", data |-> DictSet(d, Entry(f.name, f.name, read_csv(f).df))]

\* DataManager.load_data of main.py: dispatch on the filetype argument.
load_data_main(d, f, filetype) ==
    IF filetype = "xlsx" THEN load_xlsx(d, f)
    ELSE IF filetype = "csv" THEN load_csv(d, f)
    ELSE [res |-> "NotImplementedError", data |-> d]

FileTypes == {"xlsx", "csv", "json"}

\* handle_upload of main.py: "xlsx" if filename.endswith(".xlsx") else "csv"
UploadFileType(f) == IF f.name.ext = ".xlsx" THEN "xlsx" ELSE "csv"

\* Whether the file name carries one of the two accepted extensions.
Supported(f) == Lower(f.name.ext) \in {".csv", ".xlsx"}

\* The column names of the tables, each at its first appearance.
RECURSIVE UnionCols(_, _)
UnionCols(acc, cols) ==
    IF cols = <<>> THEN acc
    ELSE UnionCols(IF InKeys(Head(cols), acc) THEN acc ELSE Append(acc, Head(cols)),
                   Tail(cols))

RECURSIVE ConcatCols(_, _)
ConcatCols(acc, dfs) ==
    IF dfs = <<>> THEN acc ELSE ConcatCols(UnionCols(acc, Head(dfs).cols), Tail(dfs))

\* A row widened to `cols`: NaN where the row has no such column.
Widen(row, cols) ==
    [c \in { cols[k] : k \in 1 .. Len(cols) } |->
        IF c \in DOMAIN row THEN row[c] ELSE "NaN"]

RECURSIVE ConcatRows(_, _)
ConcatRows(dfs, cols) ==
    IF dfs = <<>> THEN <<>>
    ELSE [k \in 1 .. Len(Head(dfs).rows) |-> Widen(Head(dfs).rows[k], cols)]
         \o ConcatRows(Tail(dfs), cols)

\* The index labels of the tables, one after the other.
RECURSIVE ConcatIndex(_)
ConcatIndex(dfs) ==
    IF dfs = <<>> THEN <<>> ELSE Head(dfs).index \o ConcatIndex(Tail(dfs))

\* Mutant: ignore_index=True is missing, so every row keeps the label it had
\* in its own table.
concat_KeepIndex(dfs) ==
    DataFrame(ConcatCols(<<>>, dfs), ConcatRows(dfs, ConcatCols(<<>>, dfs)),
              ConcatIndex(dfs))

\* pd.concat(dfs, ignore_index=True): the rows of all tables in order, over
\* the union of their columns, labelled anew 0 .. n-1.
concat(dfs) ==
    DataFrame(ConcatCols(<<>>, dfs), ConcatRows(dfs, ConcatCols(<<>>, dfs)),
              RangeIndex(Len(ConcatIndex(dfs))))

\* The tables of the dict's values, in insertion order.
Values(d) == [k \in 1 .. Len(d) |-> d[k].df]

\* DataManager.aggregate_data of streamlit.py and new.py.
aggregate_data_uuid(d) ==
    IF Len(d) = 0 THEN [res |-> "ok", df |-> EmptyTable]
    ELSE IF Len(d) = 1 THEN [res |-> "ok", df |-> Values(d)[1]]
    ELSE [res |-> "ok", df |-> concat(Values(d))]

\* DataManager.aggregate_data of main.py: next(iter(...)) of an empty dict
\* raises StopIteration.
aggregate_data_main(d) ==
    IF Len(d) > 1 THEN [res |-> "ok", df |-> concat(Values(d))]
    ELSE IF Len(d) = 1 THEN [res |-> "ok", df |-> Values(d)[1]]
    ELSE [res |-> "StopIteration", df |-> EmptyTable]

aggregate_data(v, d) ==
    IF v = "main" THEN aggregate_data_main(d) ELSE aggregate_data_uuid(d)

\* DataManager.get_column_names of streamlit.py and new.py: the columns of
\* aggregate_data().
get_column_names_uuid(d) ==
    [res |-> aggregate_data_uuid(d).res, cols |-> aggregate_data_uuid(d).df.cols]

\* DataManager.get_column_names of main.py: [] without asking aggregate_data
\* when the dict is empty.
get_column_names_main(d) ==
    IF Len(d) > 0
    THEN [res |-> aggregate_data_main(d).res, cols |-> aggregate_data_main(d).df.cols]
    ELSE [res |-> "ok", cols |-> <<>>]

get_column_names(v, d) ==
    IF v = "main" THEN get_column_names_main(d) ELSE get_column_names_uuid(d)

----------------------------------------------------------------------------
(* FilterWidget. *)

\* The number that stands for NaN in a numeric column (no year, quarter or
\* month is negative).
NaN == -1

\* The elements of a finite set of integers, ascending: sorted(...).
RECURSIVE SortedSeq(_)
SortedSeq(S) ==
    IF S = {} THEN <<>>
    ELSE LET m == CHOOSE x \in S : \A y \in S : x <= y
         IN  <<m>> \o SortedSeq(S \ {m})

ToSet(seq) == { seq[k] : k \in 1 .. Len(seq) }

\* A cell of the date column holds the three numbers of the text "y-m-d" as
\* the decoder read it.  Date(2023, 2, 30) is text that names no day.
IsLeap(y) == (y % 4 = 0 /\ y % 100 # 0) \/ y % 400 = 0

DaysInMonth(y, m) ==
    IF m = 2 THEN (IF IsLeap(y) THEN 29 ELSE 28)
    ELSE IF m \in {4, 6, 9, 11} THEN 30
    ELSE 31

\* The missing datetime.
NaT == <<>>

\* pd.to_datetime(cell, errors="coerce") on one cell: the date, or NaT for
\* text that is no date.
to_datetime(cell) ==
    IF /\ Len(cell) = 3
       /\ cell[2] \in 1 .. 12
       /\ cell[3] \in 1 .. DaysInMonth(cell[1], cell[2])
    THEN cell
    ELSE NaT

\* .dt.year, .dt.quarter, .dt.month on one cell: NaN for NaT.
dt_year(d) == IF d = NaT THEN NaN ELSE d[1]

dt_quarter(d) == IF d = NaT THEN NaN ELSE ((d[2] - 1) \div 3) + 1

dt_month(d) == IF d = NaT THEN NaN ELSE d[2]

\* "date" in self.df.columns
HasDate(df) == InKeys("date", df.cols)

\* One row after lines 34-37: the date parsed, year, quarter, month set.
WithDerived(row) ==
    [c \in DOMAIN row \cup {"year", "quarter", "month"} |->
        IF c = "date" THEN to_datetime(row["date"])
        ELSE IF c = "year" THEN dt_year(to_datetime(row["date"]))
        ELSE IF c = "quarter" THEN dt_quarter(to_datetime(row["date"]))
        ELSE IF c = "month" THEN dt_month(to_datetime(row["date"]))
        ELSE row[c]]

\* self.df after lines 34-37: assigning a column that does not exist appends
\* it, the rows keep their labels.
Derive(df) ==
    DataFrame(UnionCols(df.cols, <<"year", "quarter", "month">>),
              [k \in 1 .. Len(df.rows) |-> WithDerived(df.rows[k])],
              df.index)

\* df[col].isin(values): one boolean per row.
isin(df, col, values) == [k \in 1 .. Len(df.rows) |-> df.rows[k][col] \in values]

\* df[mask]: the rows whose boolean is set, in order, with their labels.
BoolIndex(df, mask) ==
    LET pos == SortedSeq({ k \in 1 .. Len(df.rows) : mask[k] })
    IN  DataFrame(df.cols,
                  [n \in 1 .. Len(pos) |-> df.rows[pos[n]]],
                  [n \in 1 .. Len(pos) |-> df.index[pos[n]]])

\* sorted(df[col].dropna().unique())
SortedUnique(df, col) ==
    SortedSeq({ df.rows[k][col] : k \in 1 .. Len(df.rows) } \ {NaN})

available_years(df) == SortedUnique(df, "year")

\* Mutant: the rows without a year pass the year filter.
YearStep_KeepNaN(df, selected_years) ==
    IF selected_years # {}
    THEN BoolIndex(df, isin(df, "year", selected_years \cup {NaN}))
    ELSE df

\* Lines 47-49: the year filter.
YearStep(df, selected_years) ==
    IF selected_years # {} THEN BoolIndex(df, isin(df, "year", selected_years))
    ELSE df

\* options=[1, 2, 3, 4]
quarter_options == <<1, 2, 3, 4>>

\* Mutant: `if selected_quarters:` is missing.
QuarterStep_NoEmptyCheck(df, selected_quarters) ==
    BoolIndex(df, isin(df, "quarter", selected_quarters))

\* Lines 58-59: the quarter filter.
QuarterStep(df, selected_quarters) ==
    IF selected_quarters # {} THEN BoolIndex(df, isin(df, "quarter", selected_quarters))
    ELSE df

\* Mutant: NaN is not dropped from the month options.
available_months_KeepNaN(df) ==
    SortedSeq({ df.rows[k]["month"] : k \in 1 .. Len(df.rows) })

\* Line 64: the months that remain in df_filtered.
available_months(df) == SortedUnique(df, "month")

\* Lines 70-71: the month filter.
MonthStep(df, selected_months) ==
    IF selected_months # {} THEN BoolIndex(df, isin(df, "month", selected_months))
    ELSE df

NoWarning == ""

DateWarning == "No 'date' column found. Skipping date-based filters."

\* What a FilterWidget shows and returns.
Filtered(warning, years, quarters, months, df) ==
    [warning |-> warning, available_years |-> years, quarter_options |-> quarters,
     available_months |-> months, df |-> df]

\* Mutant: the year, quarter and month columns are set before the date
\* column is looked for, as NaN when there is none.
FilterWidget_render_DeriveFirst(df, selected_years, selected_quarters, selected_months) ==
    IF ~HasDate(df)
    THEN Filtered(DateWarning, <<>>, <<>>, <<>>,
                  DataFrame(UnionCols(df.cols, <<"year", "quarter", "month">>),
                            [k \in 1 .. Len(df.rows) |->
                               [c \in DOMAIN df.rows[k] \cup {"year", "quarter", "month"} |->
                                  IF c \in {"year", "quarter", "month"} THEN NaN
                                  ELSE df.rows[k][c]]],
                            df.index))
    ELSE LET by_year == YearStep(Derive(df), selected_years)
             by_quarter == QuarterStep(by_year, selected_quarters)
         IN  Filtered(NoWarning, available_years(Derive(df)), quarter_options,
                      available_months(by_quarter),
                      MonthStep(by_quarter, selected_months))

\* FilterWidget(df, key).render(): self.df is a copy of df; without a date
\* column the copy is returned with a warning; else the three filters narrow
\* it one after the other, each offering its options first.
FilterWidget_render(df, selected_years, selected_quarters, selected_months) ==
    IF ~HasDate(df) THEN Filtered(DateWarning, <<>>, <<>>, <<>>, df)
    ELSE LET by_year == YearStep(Derive(df), selected_years)
             by_quarter == QuarterStep(by_year, selected_quarters)
         IN  Filtered(NoWarning, available_years(Derive(df)), quarter_options,
                      available_months(by_quarter),
                      MonthStep(by_quarter, selected_months))

----------------------------------------------------------------------------
(* AggregationTab. *)

\* df.empty: no rows or no columns.
IsEmpty(df) == Len(df.rows) = 0 \/ Len(df.cols) = 0

\* str.lower() on the column names that occur.
ColLower(c) ==
    IF c = "Date" THEN "date"
    ELSE IF c = "Nominal" THEN "nominal"
    ELSE IF c = "Trade ID" THEN "trade id"
    ELSE c

excluded_cols == {"nominal", "date", "year", "quarter", "month", "trade id"}

\* [c for c in df_filtered.columns if c.lower() not in excluded_cols]
Groupable(c) == ColLower(c) \notin excluded_cols

groupable_cols(df) == SelectSeq(df.cols, Groupable)

\* What a multiselect can return: some of its options, each once, in the
\* order the user picked them.
Picks(options) ==
    { g \in UNION { [1 .. n -> ToSet(options)] : n \in 0 .. Len(options) } :
        \A a \in 1 .. Len(g) : \A b \in 1 .. Len(g) : g[a] = g[b] => a = b }

\* The sort order of the values of the grouping columns: strings ascending,
\* the missing value last.
KeyRank(v) ==
    IF v = "A" THEN 1
    ELSE IF v = "B" THEN 2
    ELSE IF v = "X" THEN 3
    ELSE IF v = "Y" THEN 4
    ELSE 5

\* Whether key a sorts before key b: lexicographic, column by column.
KeyLess(a, b) ==
    \E n \in 1 .. Len(a) :
       /\ KeyRank(a[n]) < KeyRank(b[n])
       /\ \A m \in 1 .. (n - 1) : a[m] = b[m]

RECURSIVE SortedKeys(_)
SortedKeys(K) ==
    IF K = {} THEN <<>>
    ELSE LET m == CHOOSE x \in K : \A y \in K \ {x} : KeyLess(x, y)
         IN  <<m>> \o SortedKeys(K \ {m})

\* The key of a row: its values in the grouping columns.
KeyOf(row, by) == [n \in 1 .. Len(by) |-> row[by[n]]]

\* Series.sum() over the rows of one group.
RECURSIVE SumNominal(_)
SumNominal(rows) ==
    IF rows = <<>> THEN 0 ELSE Head(rows)["nominal"] + SumNominal(Tail(rows))

\* The rows of the table whose key is `key`, in order.
GroupRows(df, by, key) ==
    LET pos == SortedSeq({ k \in 1 .. Len(df.rows) : KeyOf(df.rows[k], by) = key })
    IN  [n \in 1 .. Len(pos) |-> df.rows[pos[n]]]

\* One row of the grouped table: the key's values and the sum.
GroupedRow(df, by, key) ==
    [c \in ToSet(by) \cup {"nominal"} |->
        IF c = "nominal" THEN SumNominal(GroupRows(df, by, key))
        ELSE key[CHOOSE n \in 1 .. Len(by) : by[n] = c]]

\* The grouped table for a set of keys: one row per key, in sorted order.
GroupedTable(df, by, keys) ==
    Table(by \o <<"nominal">>,
          [n \in 1 .. Len(SortedKeys(keys)) |-> GroupedRow(df, by, SortedKeys(keys)[n])])

\* Mutant: dropna=False is missing, so that rows with a missing value in a
\* grouping column belong to no group.
groupby_sum_DropNa(df, by) ==
    GroupedTable(df, by,
                 { k \in { KeyOf(df.rows[r], by) : r \in 1 .. Len(df.rows) } :
                     \A n \in 1 .. Len(k) : k[n] # "NaN" })

\* Mutant: the rows are grouped by the first chosen column only; the other
\* chosen columns show the value of the group's first row.
groupby_sum_FirstOnly(df, by) ==
    LET first == <<Head(by)>>
        keys == SortedKeys({ KeyOf(df.rows[r], first) : r \in 1 .. Len(df.rows) })
    IN  Table(by \o <<"nominal">>,
              [n \in 1 .. Len(keys) |->
                 [c \in ToSet(by) \cup {"nominal"} |->
                    IF c = "nominal" THEN SumNominal(GroupRows(df, first, keys[n]))
                    ELSE GroupRows(df, first, keys[n])[1][c]]])

\* df.groupby(by, dropna=False, as_index=False)["nominal"].sum(): one row per
\* distinct key, missing values included, sorted by key; the columns are the
\* grouping columns in the chosen order, then the sum.
groupby_sum(df, by) ==
    GroupedTable(df, by, { KeyOf(df.rows[r], by) : r \in 1 .. Len(df.rows) })

\* The rows of the tables handed to a rendering tab: two years, three
\* quarters, a date that names no day, a missing region.
FilterRows ==
    { [date |-> Date(2023, 1, 5), nominal |-> 10, region |-> "X", desk |-> "A"],
      [date |-> Date(2023, 4, 9), nominal |-> 5, region |-> "Y", desk |-> "A"],
      [date |-> Date(2024, 7, 1), nominal |-> 7, region |-> "NaN", desk |-> "B"],
      [date |-> Date(2023, 2, 30), nominal |-> 3, region |-> "X", desk |-> "B"],
      [date |-> Date(2023, 2, 20), nominal |-> 4, region |-> "NaN", desk |-> "A"] }

\* The columns of those tables: all four, no date, no nominal.
ColumnLists ==
    { <<"date", "nominal", "region", "desk">>,
      <<"nominal", "region", "desk">>,
      <<"date", "region", "desk">> }

Project(row, cols) == [c \in ToSet(cols) |-> row[c]]

\* The tables aggregate_data() hands to a tab: up to MaxRows rows.
FilterTables ==
    { Table(cols, [k \in 1 .. Len(rs) |-> Project(rs[k], cols)]) :
        cols \in ColumnLists,
        rs \in UNION { [1 .. n -> FilterRows] : n \in 0 .. MaxRows } }

\* The values of the three multiselects.
Choice(years, quarters, months) ==
    [years |-> years, quarters |-> quarters, months |-> months]

\* What the three multiselects of a FilterWidget can return for a table:
\* each a subset of the options it was given, the month options being those
\* of the table narrowed by the years and quarters chosen.
FilterChoices(df) ==
    IF ~HasDate(df) THEN {Choice({}, {}, {})}
    ELSE UNION { { Choice(Y, Q, M) :
                     M \in SUBSET ToSet(available_months(
                                     QuarterStep(YearStep(Derive(df), Y), Q))) } :
                 Y \in SUBSET ToSet(available_years(Derive(df))),
                 Q \in SUBSET ToSet(quarter_options) }

NoDataMsg == "No data available or no data uploaded."

NoRowsLeftMsg == "No data left after filtering."

NoNominalMsg == "No 'nominal' column found to aggregate."

GroupedMsg == "Aggregated by the chosen columns, summing 'nominal':"

UngroupedMsg == "No grouping columns selected. Showing filtered data:"

\* A render pass: which render ran ("pending" before it runs), the values of
\* the widgets, what the FilterWidget returned, what the tab wrote and the
\* grouped table it showed.
View(pass, choice, group_cols, filtered, shown, grouped) ==
    [pass |-> pass, years |-> choice.years, quarters |-> choice.quarters,
     months |-> choice.months, group_cols |-> group_cols,
     filtered |-> filtered, shown |-> shown, grouped |-> grouped]

NoFilter == Filtered(NoWarning, <<>>, <<>>, <<>>, EmptyTable)

NoView == View("pending", Choice({}, {}, {}), <<>>, NoFilter, "", EmptyTable)

\* What AggregationTab.render shows once the FilterWidget has returned `f`
\* for the choice `c`: one view per value of the "Group By Columns" widget.
AggregationOutcomes(c, f) ==
    IF IsEmpty(f.df)
    THEN {View("aggregation", c, <<>>, f, NoRowsLeftMsg, EmptyTable)}
    ELSE IF ~InKeys("nominal", f.df.cols)
    THEN {View("aggregation", c, <<>>, f, NoNominalMsg, EmptyTable)}
    ELSE { IF g # <<>>
           THEN View("aggregation", c, g, f, GroupedMsg, groupby_sum(f.df, g))
           ELSE View("aggregation", c, g, f, UngroupedMsg, EmptyTable) :
           g \in Picks(groupable_cols(f.df)) }

\* AggregationTab.render() on the table `df`, for every value of its widgets.
AggregationViews(df) ==
    IF IsEmpty(df)
    THEN {View("aggregation", Choice({}, {}, {}), <<>>, NoFilter, NoDataMsg, EmptyTable)}
    ELSE UNION { AggregationOutcomes(c, FilterWidget_render(df, c.years, c.quarters, c.months)) :
                 c \in FilterChoices(df) }

----------------------------------------------------------------------------
(* PlotTab, and the DataFrame objects a rendering tab works on. *)

PlotNoDataMsg == "No data available. Please upload files first."

PlotColumnsMsg == "Data must have 'date' and 'nominal' columns for plotting."

LineChart == "line_chart"

\* df.dropna(subset=["date", "nominal"]) on a table whose date column is
\* parsed: a new table without the rows that have NaT or no nominal.
dropna(df) ==
    BoolIndex(df, [k \in 1 .. Len(df.rows) |->
                     df.rows[k]["date"] # NaT /\ df.rows[k]["nominal"] # NaN])

\* One date before another.
DateLess(a, b) ==
    \/ a[1] < b[1]
    \/ a[1] = b[1] /\ a[2] < b[2]
    \/ a[1] = b[1] /\ a[2] = b[2] /\ a[3] < b[3]

\* df.sort_values("date") on a table without NaT: a new table, its rows by
\* date, rows of one date in the order they had, each with its label.
sort_values(df) ==
    LET n == Len(df.rows)
        Before(j, k) == \/ DateLess(df.rows[j]["date"], df.rows[k]["date"])
                        \/ df.rows[j]["date"] = df.rows[k]["date"] /\ j < k
        Rank(k) == Cardinality({ j \in 1 .. n : Before(j, k) }) + 1
        At(r) == CHOOSE k \in 1 .. n : Rank(k) = r
    IN  DataFrame(df.cols, [r \in 1 .. n |-> df.rows[At(r)]],
                  [r \in 1 .. n |-> df.index[At(r)]])

\* PlotTab.render() on the table `df`, for every value of its widgets: the
\* last field of the view is the table the chart is drawn from.
PlotViews(df) ==
    IF IsEmpty(df)
    THEN {View("plot", Choice({}, {}, {}), <<>>, NoFilter, PlotNoDataMsg, EmptyTable)}
    ELSE { LET f == FilterWidget_render(df, c.years, c.quarters, c.months)
           IN  IF IsEmpty(f.df)
               THEN View("plot", c, <<>>, f, NoRowsLeftMsg, EmptyTable)
               ELSE IF ~InKeys("date", f.df.cols) \/ ~InKeys("nominal", f.df.cols)
               THEN View("plot", c, <<>>, f, PlotColumnsMsg, EmptyTable)
               ELSE View("plot", c, <<>>, f, LineChart, sort_values(dropna(f.df))) :
           c \in FilterChoices(df) }

\* A reference to a DataFrame object: `alias` is the position in the dict of
\* the stored table that is this very object, 0 for an object of its own.
Ref(alias, df) == [alias |-> alias, df |-> df]

\* What DataManager.aggregate_data returns in streamlit.py and new.py: the
\* stored object itself when there is one source, else a new object.
aggregate_data_ref(d) ==
    IF Len(d) = 1 THEN Ref(1, d[1].df) ELSE Ref(0, aggregate_data_uuid(d).df)

\* Mutant: the FilterWidget keeps the table it was given.
FilterWidget_init_NoCopy(ref) == ref

\* FilterWidget.__init__: self.df = df.copy(), an object of its own.
FilterWidget_init(ref) == Ref(0, ref.df)

\* self.df once FilterWidget.render has returned: lines 34-37 assign the
\* date, year, quarter and month columns of self.df in place when there is
\* a date column; every later step builds new tables.
SelfAfterRender(df) == IF HasDate(df) THEN Derive(df) ELSE df

\* The dict once the object `ref` has become `df`.
StoreAfter(d, ref, df) ==
    IF ref.alias = 0 THEN d
    ELSE [k \in 1 .. Len(d) |->
            IF k = ref.alias THEN Entry(d[k].key, d[k].name, df) ELSE d[k]]

----------------------------------------------------------------------------
(* The session. *)

\* What the model remembers of the last operation: its name, whether its
\* arguments were valid (indices in range, kind registered) and its outcome.
Op(name, valid, res) == [op |-> name, valid |-> valid, res |-> res]

InRange(i, s) == 0 <= i /\ i < Len(s)

\* init_session_state / DashApp.__init__: no sheets, active index 0, the
\* factory has discovered its kinds.
Init ==
    /\ variant \in Variants
    /\ sheets = <<>>
    /\ active_sheet_idx = 0
    /\ tab_classes = discover_tabs(variant, <<>>)
    /\ next_tab_id = 0
    /\ data_map = <<>>
    /\ next_uid = 0
    /\ ingested = <<>>
    /\ last = Op("init", TRUE, "ok")
    /\ input_df = EmptyTable
    /\ view = NoView
    /\ uploaders = NoWidgetState
    /\ rendered = Rendered("No sheets to display.", <<>>, <<>>)

\* "Add New Sheet" / "Add Sheet": add_sheet, then the new sheet is active.
AddSheet ==
    /\ Len(sheets) < MaxSheets
    /\ sheets' = add_sheet(sheets)
    /\ active_sheet_idx' = Len(sheets') - 1
    /\ last' = Op("add_sheet", TRUE, "ok")
    /\ UNCHANGED <<tab_pass, variant, tab_classes, next_tab_id, store>>

\* A "Sheet i+1" button: one per i in range(sheet_count).
Navigate(i) ==
    /\ i \in PyRange(sheets)
    /\ active_sheet_idx' = i
    /\ last' = Op("navigate", TRUE, "ok")
    /\ UNCHANGED <<tab_pass, variant, sheets, tab_classes, next_tab_id, store>>

\* Mutant: the clamp is missing.
AdjustActive_NoClamp(idx, count) == idx

\* The clamp after a deletion: an index past the end becomes the last one.
AdjustActive(idx, count) == IF idx >= count THEN count - 1 ELSE idx

\* The "X" button of sheet i, one per i in range(sheet_count): delete_sheet(i),
\* the clamp, rerun.
DeleteSheetClick(i) ==
    /\ variant = "streamlit"
    /\ i \in PyRange(sheets)
    /\ sheets' = delete_sheet(sheets, i)
    /\ active_sheet_idx' = AdjustActive(active_sheet_idx, Len(sheets'))
    /\ last' = Op("delete_sheet_click", TRUE, "ok")
    /\ UNCHANGED <<tab_pass, variant, tab_classes, next_tab_id, store>>

\* The add-tab step of all three front ends: create_tab(kind), then
\* add_tab_to_sheet(sheet_index, tab); an exception of the first skips the
\* second.  main.py runs the step only `if tab_type:`, so a dropdown with
\* nothing selected ("" here) does nothing there.
AddTabStep(name, sheet_index, kind) ==
    LET made == create_tab(tab_classes, kind, next_tab_id)
        added == add_tab_to_sheet(variant, sheets, sheet_index, made.tab)
    IN  /\ next_tab_id < MaxTabIds
        /\ IF variant = "main" /\ kind = ""
           THEN /\ last' = Op(name, FALSE, "ok")
                /\ UNCHANGED <<sheets, next_tab_id>>
           ELSE IF made.res # "ok"
           THEN /\ last' = Op(name, FALSE, made.res)
                /\ UNCHANGED <<sheets, next_tab_id>>
           ELSE /\ sheets' = added.sheets
                /\ next_tab_id' = IF sheets' # sheets THEN next_tab_id + 1 ELSE next_tab_id
                /\ last' = Op(name, InRange(sheet_index, sheets), added.res)
        /\ UNCHANGED <<tab_pass, variant, active_sheet_idx, tab_classes, store>>

\* The kinds an "Add Tab" click can carry: an option of the dropdown, or in
\* main.py nothing.
DropdownValues == get_tab_options(tab_classes) \cup (IF variant = "main" THEN {""} ELSE {})

\* "Add Tab" / "Add Tab to Sheet": shown when a sheet exists, for the active
\* sheet and the dropdown's value.
AddTabClick(kind) ==
    /\ Len(sheets) > 0
    /\ kind \in DropdownValues
    /\ AddTabStep("add_tab_click", active_sheet_idx, kind)

\* "Delete Tab" with a tab of the active sheet selected.
DeleteTabClick(tab_index) ==
    /\ variant = "streamlit"
    /\ Len(sheets) > 0
    /\ tab_index \in PyRange(get_tabs_in_sheet(sheets, active_sheet_idx))
    /\ sheets' = delete_tab_from_sheet(sheets, active_sheet_idx, tab_index)
    /\ last' = Op("delete_tab_click", TRUE, "ok")
    /\ UNCHANGED <<tab_pass, variant, active_sheet_idx, tab_classes, next_tab_id, store>>

\* SheetManager.delete_sheet called directly, with any index.
DeleteSheetCall(index) ==
    /\ variant = "streamlit"
    /\ sheets' = delete_sheet(sheets, index)
    /\ last' = Op("delete_sheet", InRange(index, sheets), "ok")
    /\ UNCHANGED <<tab_pass, variant, active_sheet_idx, tab_classes, next_tab_id, store>>

\* The add-tab step called with any sheet index and any kind name.
AddTabCall(sheet_index, kind) == AddTabStep("add_tab", sheet_index, kind)

\* SheetManager.delete_tab_from_sheet called directly, with any indices.
DeleteTabCall(sheet_index, tab_index) ==
    /\ variant = "streamlit"
    /\ sheets' = delete_tab_from_sheet(sheets, sheet_index, tab_index)
    /\ last' = Op("delete_tab", InRange(tab_index, get_tabs_in_sheet(sheets, sheet_index)), "ok")
    /\ UNCHANGED <<tab_pass, variant, active_sheet_idx, tab_classes, next_tab_id, store>>

\* DataManager.load_data of streamlit.py and new.py, as UploadTab.render calls
\* it for one uploaded file.
LoadData(f) ==
    /\ variant # "main"
    /\ Len(ingested) < MaxIngests
    /\ \E importable \in BOOLEAN :
         LET r == load_data_uuid(data_map, next_uid, f, importable)
         IN  /\ data_map' = r.data
             /\ next_uid' = IF r.res = "ok" THEN next_uid + 1 ELSE next_uid
             /\ ingested' = IF r.res = "ok" THEN Append(ingested, f.table) ELSE ingested
             /\ last' = Op("load_data", Supported(f), r.res)
    /\ UNCHANGED <<tab_pass, variant, tab_classes, workspace>>

\* DataManager.load_data of main.py called with a file and a filetype.
LoadDataMain(name, f, filetype) ==
    LET r == load_data_main(data_map, f, filetype)
    IN  /\ variant = "main"
        /\ Len(ingested) < MaxIngests
        /\ data_map' = r.data
        /\ ingested' = IF r.res = "ok" THEN Append(ingested, f.table) ELSE ingested
        /\ last' = Op(name, Supported(f), r.res)
        /\ UNCHANGED <<tab_pass, variant, tab_classes, workspace, next_uid>>

\* handle_upload of main.py for one uploaded file: the filetype is chosen
\* from the file name.
HandleUpload(f) == LoadDataMain("handle_upload", f, UploadFileType(f))

LoadDataCall(f, filetype) == LoadDataMain("load_data", f, filetype)

\* A script run in which a tab is about to render the table `df`.
InitRender ==
    /\ variant = "streamlit"
    /\ sheets = <<>>
    /\ active_sheet_idx = 0
    /\ tab_classes = discover_tabs(variant, <<>>)
    /\ next_tab_id = 0
    /\ data_map = <<>>
    /\ next_uid = 0
    /\ ingested = <<>>
    /\ last = Op("init", TRUE, "ok")
    /\ input_df \in FilterTables
    /\ view = NoView
    /\ uploaders = NoWidgetState
    /\ rendered = Rendered("No sheets to display.", <<>>, <<>>)

\* FilterWidget(df, key).render() with the widgets' values.
FilterRender ==
    /\ variant = "streamlit"
    /\ view.pass = "pending"
    /\ \E c \in FilterChoices(input_df) :
          view' = View("filter", c, <<>>,
                       FilterWidget_render(input_df, c.years, c.quarters, c.months),
                       "", EmptyTable)
    /\ last' = Op("render_filter", TRUE, "ok")
    /\ UNCHANGED <<variant, tab_classes, workspace, store, input_df, uploaders, rendered>>

\* AggregationTab.render(): the table, the FilterWidget, the check for the
\* nominal column, the grouping columns chosen among the groupable ones, the
\* grouped table or the filtered one.
AggregationRender ==
    /\ variant = "streamlit"
    /\ view.pass = "pending"
    /\ view' \in AggregationViews(input_df)
    /\ last' = Op("render_aggregation", TRUE, "ok")
    /\ UNCHANGED <<variant, tab_classes, workspace, store, input_df, uploaders, rendered>>

\* An interaction reruns the script: the pass starts again on the same table.
Rerun ==
    /\ view.pass # "pending"
    /\ view' = NoView
    /\ last' = Op("rerun", TRUE, "ok")
    /\ UNCHANGED <<variant, tab_classes, workspace, store, input_df, uploaders, rendered>>

\* PlotTab.render() on the session's store: the aggregate, a FilterWidget on
\* it, the chart.
PlotTabRender ==
    /\ variant = "streamlit"
    /\ view.pass = "pending"
    /\ LET df == aggregate_data_ref(data_map)
           filter_widget == FilterWidget_init(df)
       IN  /\ input_df' = df.df
           /\ view' \in PlotViews(filter_widget.df)
           /\ data_map' = IF IsEmpty(df.df) THEN data_map
                          ELSE StoreAfter(data_map, filter_widget,
                                          SelfAfterRender(filter_widget.df))
    /\ last' = Op("render_plot", TRUE, "ok")
    /\ UNCHANGED <<variant, tab_classes, workspace, next_uid, ingested, uploaders, rendered>>

\* AggregationTab.render() on the session's store.
AggregationTabRender ==
    /\ variant = "streamlit"
    /\ view.pass = "pending"
    /\ LET df == aggregate_data_ref(data_map)
           filter_widget == FilterWidget_init(df)
       IN  /\ input_df' = df.df
           /\ view' \in AggregationViews(filter_widget.df)
           /\ data_map' = IF IsEmpty(df.df) THEN data_map
                          ELSE StoreAfter(data_map, filter_widget,
                                          SelfAfterRender(filter_widget.df))
    /\ last' = Op("render_aggregation", TRUE, "ok")
    /\ UNCHANGED <<variant, tab_classes, workspace, next_uid, ingested, uploaders, rendered>>

\* The store while a script run renders: the dict, the ids handed out, the
\* tables ingested.
RunStore(d, uid, ing) == [data |-> d, uid |-> uid, ingested |-> ing]

\* The files a tab's st.file_uploader holds.
Held(state, tab_id) == IF tab_id \in DOMAIN state THEN state[tab_id] ELSE <<>>

\* UploadTab.render, lines 188-192: load_data for every file the uploader
\* returns, in order.
RECURSIVE LoadAll(_, _)
LoadAll(st, files) ==
    IF files = <<>> THEN st
    ELSE LET r == load_data_uuid(st.data, st.uid, Head(files), TRUE)
         IN  LoadAll(IF r.res = "ok"
                     THEN RunStore(r.data, st.uid + 1, Append(st.ingested, Head(files).table))
                     ELSE st,
                     Tail(files))

\* The render loop of render_sheet: tab_instance.render() for each tab in
\* order.  An UploadTab loads its files; the other tabs leave the store.
RECURSIVE RenderTabs(_, _, _)
RenderTabs(st, tabs, state) ==
    IF tabs = <<>> THEN st
    ELSE RenderTabs(IF Head(tabs).kind = "UploadTab"
                    THEN LoadAll(st, Held(state, Head(tabs).tab_id))
                    ELSE st,
                    Tail(tabs), state)

\* The widget state Streamlit keeps when a run ends: that of the uploaders
\* the run rendered.
KeptState(state, tabs) ==
    [id \in { tabs[k].tab_id : k \in { j \in 1 .. Len(tabs) : tabs[j].kind = "UploadTab" } }
              \cap DOMAIN state |-> state[id]]

\* A run of the script to its end, after the handlers: the main area
\* renders the active sheet `idx` of `ss` with the widget state `state`.
ScriptRun(op, ss, idx, state) ==
    LET shown == render_main(variant, ss, idx)
        st == RenderTabs(RunStore(data_map, next_uid, ingested), shown.tabs, state)
    IN  /\ Len(st.ingested) <= MaxIngests
        /\ data_map' = st.data
        /\ next_uid' = st.uid
        /\ ingested' = st.ingested
        /\ uploaders' = KeptState(state, shown.tabs)
        /\ rendered' = Rendered(shown.msg, tab_titles(shown.tabs),
                                [k \in 1 .. Len(shown.tabs) |-> shown.tabs[k].tab_id])
        /\ last' = Op(op, TRUE, "ok")
        /\ UNCHANGED <<input_df, view, variant, tab_classes>>

\* st.experimental_rerun() in a handler: the run stops before the main area
\* and the script runs again.  Whether the stopped run, which rendered no
\* uploader, discards their state depends on the Streamlit release.
RerunStates == {uploaders, NoWidgetState}

\* "Add New Sheet" / "Add Sheet" and the rest of the run.
RunAddSheet ==
    /\ variant # "main"
    /\ Len(sheets) < MaxAppSheets
    /\ sheets' = add_sheet(sheets)
    /\ active_sheet_idx' = Len(sheets') - 1
    /\ UNCHANGED next_tab_id
    /\ ScriptRun("add_sheet_click", sheets', active_sheet_idx', uploaders)

\* A "Sheet i+1" button and the rest of the run.
RunNavigate(i) ==
    /\ variant # "main"
    /\ i \in PyRange(sheets)
    /\ active_sheet_idx' = i
    /\ UNCHANGED <<sheets, next_tab_id>>
    /\ ScriptRun("navigate", sheets, i, uploaders)

\* The "X" button of sheet i: delete_sheet(i), the clamp, rerun.
RunDeleteSheet(i) ==
    /\ variant = "streamlit"
    /\ i \in PyRange(sheets)
    /\ sheets' = delete_sheet(sheets, i)
    /\ active_sheet_idx' = AdjustActive(active_sheet_idx, Len(sheets'))
    /\ UNCHANGED next_tab_id
    /\ \E state \in RerunStates :
          ScriptRun("delete_sheet_click", sheets', active_sheet_idx', state)

\* "Add Tab" / "Add Tab to Sheet" with a kind of the dropdown: create_tab,
\* add_tab_to_sheet, rerun.
RunAddTab(kind) ==
    /\ variant # "main"
    /\ Len(sheets) > 0
    /\ next_tab_id < MaxAppTabs
    /\ kind \in get_tab_options(tab_classes)
    /\ sheets' = add_tab_to_sheet(variant, sheets, active_sheet_idx,
                                  create_tab(tab_classes, kind, next_tab_id).tab).sheets
    /\ next_tab_id' = IF sheets' # sheets THEN next_tab_id + 1 ELSE next_tab_id
    /\ UNCHANGED active_sheet_idx
    /\ \E state \in RerunStates :
          ScriptRun("add_tab_click", sheets', active_sheet_idx, state)

\* "Delete Tab" with a tab of the active sheet selected: rerun.
RunDeleteTab(tab_index) ==
    /\ variant = "streamlit"
    /\ Len(sheets) > 0
    /\ tab_index \in PyRange(get_tabs_in_sheet(sheets, active_sheet_idx))
    /\ sheets' = delete_tab_from_sheet(sheets, active_sheet_idx, tab_index)
    /\ UNCHANGED <<active_sheet_idx, next_tab_id>>
    /\ \E state \in RerunStates :
          ScriptRun("delete_tab_click", sheets', active_sheet_idx, state)

\* The user gives one more file to the uploader of a rendered UploadTab:
\* the script runs with the uploader returning the files it holds.
RunUpload(tab_id, f) ==
    /\ \E k \in 1 .. Len(rendered.calls) :
          rendered.calls[k] = tab_id /\ rendered.titles[k].kind = "UploadTab"
    /\ f \notin ToSet(Held(uploaders, tab_id))
    /\ UNCHANGED <<sheets, active_sheet_idx, next_tab_id>>
    /\ ScriptRun("upload", sheets, active_sheet_idx,
                 [id \in DOMAIN uploaders \cup {tab_id} |->
                    IF id = tab_id THEN Append(Held(uploaders, tab_id), f)
                    ELSE uploaders[id]])

\* Any other widget of a rendered tab changes (a multiselect of a
\* FilterWidget, a selectbox): the script runs again.
RunWidget ==
    /\ variant # "main"
    /\ Len(rendered.calls) > 0
    /\ UNCHANGED <<sheets, active_sheet_idx, next_tab_id>>
    /\ ScriptRun("widget", sheets, active_sheet_idx, uploaders)

\* TabFactory.discover_tabs called again on the session's factory.
DiscoverCall ==
    /\ tab_classes' = discover_tabs(variant, tab_classes)
    /\ last' = Op("discover_tabs", TRUE, "ok")
    /\ UNCHANGED <<tab_pass, variant, workspace, store>>

UserNext ==
    \/ AddSheet
    \/ \E i \in IndexInputs : Navigate(i)
    \/ \E i \in IndexInputs : DeleteSheetClick(i)
    \/ \E k \in ClassNames \cup {""} : AddTabClick(k)
    \/ \E j \in IndexInputs : DeleteTabClick(j)

CallNext ==
    \/ \E i \in IndexInputs : DeleteSheetCall(i)
    \/ \E i \in IndexInputs, k \in KindInputs : AddTabCall(i, k)
    \/ \E i \in IndexInputs, j \in IndexInputs : DeleteTabCall(i, j)

Next == UserNext

Spec == Init /\ [][Next]_vars

\* SheetManager and TabFactory driven directly: sheets are added, and the
\* methods are called with any arguments.
NextCalls == AddSheet \/ CallNext

SpecCalls == Init /\ [][NextCalls]_vars

\* The store alone: files are uploaded, nothing else happens.
NextStore ==
    \/ \E f \in Files : LoadData(f)
    \/ \E f \in Files : HandleUpload(f)
    \/ \E f \in Files, ft \in FileTypes : LoadDataCall(f, ft)

SpecStore == Init /\ [][NextStore]_vars

\* The files loaded while the workspace is worked on.
SharedFiles ==
    { [name |-> FileName("a", ".csv"), content |-> "csv", table |-> TableA] }

\* The components of one session driven directly: the methods of
\* SheetManager and TabFactory with any arguments, and the DataManager
\* loading files.
NextShared ==
    \/ NextCalls
    \/ DiscoverCall
    \/ \E f \in SharedFiles : LoadData(f)
    \/ \E f \in SharedFiles : HandleUpload(f)

SpecShared == Init /\ [][NextShared]_vars

\* A third table: a date that names no day, and a desk instead of a region.
TableC ==
    Table(<<"date", "nominal", "desk">>,
          << [date |-> Date(2023, 2, 30), nominal |-> 3, desk |-> "B"] >>)

\* The files uploaded between the render passes.
RenderFiles ==
    { [name |-> FileName("a", ".csv"), content |-> "csv", table |-> TableA],
      [name |-> FileName("c", ".csv"), content |-> "csv", table |-> TableC] }

\* A session of streamlit.py.
InitTabRender == Init /\ variant = "streamlit"

\* A file is loaded before the tabs render.
UploadBeforeRender(f) == view.pass = "pending" /\ LoadData(f)

\* Files are loaded and the plot and aggregation tabs rendered on what the
\* store holds, pass after pass, with any values of their widgets.
NextTabRender ==
    \/ \E f \in RenderFiles : UploadBeforeRender(f)
    \/ PlotTabRender
    \/ AggregationTabRender
    \/ Rerun

SpecTabRender == InitTabRender /\ [][NextTabRender]_vars

\* The files the user has at hand for the uploaders.
AppFiles ==
    { [name |-> FileName("a", ".csv"), content |-> "csv", table |-> TableA],
      [name |-> FileName("b", ".csv"), content |-> "csv", table |-> TableB] }

\* A session of streamlit.py or new.py.
InitApp == Init /\ variant # "main"

\* A session followed script run by script run: each interaction with its
\* handler and the render of the active sheet that follows it.
NextApp ==
    \/ RunAddSheet
    \/ \E i \in 0 .. MaxAppSheets : RunNavigate(i)
    \/ \E i \in 0 .. MaxAppSheets : RunDeleteSheet(i)
    \/ \E kind \in ClassNames : RunAddTab(kind)
    \/ \E j \in 0 .. MaxAppTabs : RunDeleteTab(j)
    \/ \E id \in 0 .. MaxAppTabs, f \in AppFiles : RunUpload(id, f)
    \/ RunWidget

SpecApp == InitApp /\ [][NextApp]_vars

\* A FilterWidget rendered over and over on one table.
NextFilter == FilterRender \/ Rerun

SpecFilter == InitRender /\ [][NextFilter]_vars

\* An AggregationTab rendered over and over on one table.
NextAggregation == AggregationRender \/ Rerun

SpecAggregation == InitRender /\ [][NextAggregation]_vars

----------------------------------------------------------------------------
(* The workspace: claims C1 to C7. *)

\* The list without its element at 0-based position i, written out.
Without(s, i) == [k \in 1 .. (Len(s) - 1) |-> IF k <= i THEN s[k] ELSE s[k + 1]]

\* C1: whenever a sheet exists, the active index names one of the sheets:
\* 0 <= active_sheet_idx < len(sheets), after any sequence of user actions.
C1_ActiveIndexInRange ==
    Len(sheets) > 0 => (0 <= active_sheet_idx /\ active_sheet_idx < Len(sheets))

\* A deletion has just left sheets behind, the last of them active.
C1_Witness ==
    /\ last.op = "delete_sheet_click"
    /\ Len(sheets) > 0
    /\ active_sheet_idx = Len(sheets) - 1

\* C2: deleting sheet i (in range) removes exactly element i, the others
\* keeping their order and tabs; the active index stays if it is still below
\* the new length and otherwise becomes the new last index; with no sheet left
\* no sheet is active (-1) and the main area shows the empty-workspace message.
C2_DeleteSheetRemovesAndClamps ==
    [][\A i \in IndexInputs :
          DeleteSheetClick(i) =>
             /\ sheets' = Without(sheets, i)
             /\ active_sheet_idx' =
                   (IF active_sheet_idx < Len(sheets) - 1
                    THEN active_sheet_idx ELSE Len(sheets) - 2)
             /\ (sheets' = <<>> =>
                   /\ active_sheet_idx' = -1
                   /\ render_active(sheets', active_sheet_idx').msg =
                         "No sheets to display.")]_vars

\* A deletion has just left one sheet, which holds a tab and is active.
C2_Witness ==
    /\ last.op = "delete_sheet_click"
    /\ Len(sheets) = 1
    /\ Len(sheets[1]) > 0
    /\ active_sheet_idx = 0

\* C3: delete_sheet with an index out of range changes neither the sheets
\* (with their tabs) nor the active index.
C3_DeleteSheetOutOfRangeNoop ==
    [][\A i \in IndexInputs :
          (DeleteSheetCall(i) /\ ~InRange(i, sheets)) =>
             (sheets' = sheets /\ active_sheet_idx' = active_sheet_idx)]_vars

\* delete_sheet has just been called out of range on sheets holding a tab.
C3_Witness ==
    /\ last.op = "delete_sheet"
    /\ ~last.valid
    /\ \E k \in 1 .. Len(sheets) : Len(sheets[k]) > 0

\* C4: adding a sheet appends exactly one empty sheet at the end, keeps every
\* existing sheet and its tabs, and makes the new sheet the active one.
C4_AddSheetAppendsAndActivates ==
    [][AddSheet =>
          /\ Len(sheets') = Len(sheets) + 1
          /\ \A k \in 1 .. Len(sheets) : sheets'[k] = sheets[k]
          /\ sheets'[Len(sheets')] = <<>>
          /\ active_sheet_idx' = Len(sheets') - 1]_vars

\* A second sheet has just been added after a sheet that holds a tab.
C4_Witness ==
    /\ last.op = "add_sheet"
    /\ Len(sheets) = 2
    /\ Len(sheets[1]) > 0
    /\ active_sheet_idx = 1

\* The sheets with `tab` appended to the sheet at 0-based position i.
WithTab(ss, i, tab) ==
    [k \in 1 .. Len(ss) |-> IF k = i + 1 THEN ss[k] \o <<tab>> ELSE ss[k]]

\* C5: add_tab with a sheet index out of range fails with an index error and
\* changes no sheet; with an index in range it appends one tab of the asked
\* kind to the end of that sheet and changes no other sheet.
C5_AddTabChecksSheetIndex ==
    [][\A i \in IndexInputs : \A k \in KindInputs :
          (AddTabCall(i, k) /\ InKeys(k, tab_classes)) =>
             IF InRange(i, sheets)
             THEN sheets' = WithTab(sheets, i, NewTab(k, next_tab_id))
             ELSE last'.res = "IndexError" /\ sheets' = sheets]_vars

\* C6: asking for a kind name that is not registered fails with ValueError,
\* appends nothing and leaves sheets and active index as they were.
C6_UnknownKindFails ==
    [][\A i \in IndexInputs : \A k \in KindInputs \ {""} :
          (AddTabCall(i, k) /\ ~InKeys(k, tab_classes)) =>
             /\ last'.res = "ValueError"
             /\ sheets' = sheets
             /\ active_sheet_idx' = active_sheet_idx]_vars

\* An add-tab for an unregistered kind has just failed while sheets exist.
C6_Witness ==
    /\ last.op = "add_tab"
    /\ last.res = "ValueError"
    /\ Len(sheets) > 0

\* The sheets after removing the tab at 0-based position j of sheet i, both
\* in range.
WithoutTab(ss, i, j) ==
    [k \in 1 .. Len(ss) |-> IF k = i + 1 THEN Without(ss[k], j) ELSE ss[k]]

TabInRange(ss, i, j) ==
    /\ InRange(i, ss)
    /\ 0 <= j
    /\ j < Len(ss[i + 1])

\* C7: delete_tab with either index out of range changes nothing; with both
\* in range it removes exactly that tab, keeps the order of the sheet's other
\* tabs, and changes no other sheet; the active index is never changed.
C7_DeleteTabRemovesOrNoop ==
    [][\A i \in IndexInputs : \A j \in IndexInputs :
          (last'.op = "delete_tab" /\ DeleteTabCall(i, j)) =>
             /\ sheets' = (IF TabInRange(sheets, i, j)
                           THEN WithoutTab(sheets, i, j) ELSE sheets)
             /\ active_sheet_idx' = active_sheet_idx]_vars

\* A tab has just been deleted from a sheet that still holds two tabs.
C7_Witness ==
    /\ last.op = "delete_tab"
    /\ last.valid
    /\ \E k \in 1 .. Len(sheets) : Len(sheets[k]) >= 2

----------------------------------------------------------------------------
(* The store: claims C8 to C10. *)

\* C8: a file whose extension is neither .csv nor .xlsx is rejected: the
\* ingest does not succeed and the store is as it was.
C8_UnsupportedExtensionRejected ==
    [][\A f \in Files :
          (/\ ~Supported(f)
           /\ \/ LoadData(f)
              \/ HandleUpload(f)
              \/ \E ft \in FileTypes : LoadDataCall(f, ft)) =>
             (last'.res # "ok" /\ data_map' = data_map)]_vars

\* C9: after n successful ingests the store holds exactly n sources, so no
\* ingest overwrites an earlier one, whatever the file names.
C9_OneSourcePerIngest == Len(data_map) = Len(ingested)

RECURSIVE SumRows(_)
SumRows(dfs) == IF dfs = <<>> THEN 0 ELSE Len(Head(dfs).rows) + SumRows(Tail(dfs))

\* C10: once files have been ingested, aggregate() has as many rows as the
\* ingested tables have together.
C10_AggregateRowCount ==
    Len(ingested) > 0 =>
       /\ aggregate_data(variant, data_map).res = "ok"
       /\ Len(aggregate_data(variant, data_map).df.rows) = SumRows(ingested)

----------------------------------------------------------------------------
(* The aggregate: claims C11 to C13. *)

\* C11: on a store with no sources aggregate() returns the empty table with
\* no columns, without failing, and column_names() the empty sequence, in
\* every variant.
C11_EmptyStoreAggregate ==
    data_map = <<>> =>
       /\ aggregate_data(variant, data_map) = [res |-> "ok", df |-> EmptyTable]
       /\ get_column_names(variant, data_map) = [res |-> "ok", cols |-> <<>>]

\* The number of rows of the stored tables before the one at position k.
RowsBefore(d, k) == SumRows(SubSeq(Values(d), 1, k - 1))

\* C12: with one source aggregate() is that source's table; with two or more
\* it holds the rows of every stored table, the tables in insertion order and
\* each table's rows in their own order, labelled 0, 1, 2, ... without gaps.
C12_AggregateConcatInOrder ==
    LET agg == aggregate_data(variant, data_map)
    IN  /\ Len(data_map) = 1 => agg = [res |-> "ok", df |-> data_map[1].df]
        /\ Len(data_map) >= 2 =>
              /\ agg.res = "ok"
              /\ Len(agg.df.rows) = SumRows(Values(data_map))
              /\ \A k \in 1 .. Len(data_map) :
                    \A j \in 1 .. Len(data_map[k].df.rows) :
                       \A c \in DOMAIN data_map[k].df.rows[j] :
                          agg.df.rows[RowsBefore(data_map, k) + j][c] =
                             data_map[k].df.rows[j][c]
              /\ \A n \in 1 .. Len(agg.df.rows) : agg.df.index[n] = n - 1

\* Three sources are stored, the two-row table before the one-row table.
C12_Witness ==
    /\ Len(data_map) = 3
    /\ data_map[1].df = TableB
    /\ data_map[2].df = TableA

\* C13: an ingest whose decoder fails ends with the decoder's error and
\* leaves the store as it was: the same ids, the same tables, no new entry.
C13_DecodeFailureLeavesStore ==
    [][\A f \in Files :
          (/\ last'.res = "DecodeError"
           /\ \/ LoadData(f)
              \/ HandleUpload(f)
              \/ \E ft \in FileTypes : LoadDataCall(f, ft)) =>
             data_map' = data_map]_vars

\* A decoder has just failed on a store that holds two sources.
C13_Witness ==
    /\ last.res = "DecodeError"
    /\ Len(data_map) = 2

----------------------------------------------------------------------------
(* The filter pipeline: claims C14 to C18. *)

\* The year, quarter and month derived from the date of row k of the table
\* handed to the widget.
YearOfRow(k) == dt_year(to_datetime(input_df.rows[k]["date"]))

QuarterOfRow(k) == dt_quarter(to_datetime(input_df.rows[k]["date"]))

MonthOfRow(k) == dt_month(to_datetime(input_df.rows[k]["date"]))

\* Row k passes every stage whose selection is not empty.
Passes(k, years, quarters, months) ==
    /\ years = {} \/ YearOfRow(k) \in years
    /\ quarters = {} \/ QuarterOfRow(k) \in quarters
    /\ months = {} \/ MonthOfRow(k) \in months

\* A FilterWidget has rendered a table that has a date column.
FilterRan == view.pass = "filter" /\ HasDate(input_df)

\* C14: the filter returns exactly the rows that pass every stage with a
\* non-empty selection (with years Y alone: the rows whose year is in Y, and
\* none whose date did not parse), in their original order and with their
\* values.
C14_FilterKeepsExactlyMatchingRows ==
    FilterRan =>
       LET out == view.filtered.df
       IN  /\ \A k \in 1 .. Len(input_df.rows) :
                 (\E n \in 1 .. Len(out.rows) : out.index[n] = k - 1)
                    <=> Passes(k, view.years, view.quarters, view.months)
           /\ \A a \in 1 .. Len(out.rows) : \A b \in 1 .. Len(out.rows) :
                 a < b => out.index[a] < out.index[b]
           /\ \A n \in 1 .. Len(out.rows) :
                 \A c \in ToSet(input_df.cols) \ {"date"} :
                    out.rows[n][c] = input_df.rows[out.index[n] + 1][c]
           /\ view.years # {} =>
                 \A n \in 1 .. Len(out.rows) :
                    /\ out.rows[n]["date"] # NaT
                    /\ out.rows[n]["date"][1] \in view.years

\* Years alone were chosen, and of two rows the one whose date did not parse
\* was left out.
C14_Witness ==
    /\ FilterRan
    /\ view.years # {}
    /\ view.quarters = {}
    /\ view.months = {}
    /\ Len(input_df.rows) = 2
    /\ Len(view.filtered.df.rows) = 1
    /\ \E k \in 1 .. 2 : to_datetime(input_df.rows[k]["date"]) = NaT

\* C15: an empty selection at a stage gives what the pipeline without that
\* stage gives, whatever the other two selections; with all three empty
\* every row of the input is returned.
C15_EmptySelectionPassThrough ==
    FilterRan =>
       LET out == view.filtered.df
           derived == Derive(input_df)
       IN  /\ view.years = {} =>
                 out = MonthStep(QuarterStep(derived, view.quarters), view.months)
           /\ view.quarters = {} =>
                 out = MonthStep(YearStep(derived, view.years), view.months)
           /\ view.months = {} =>
                 out = QuarterStep(YearStep(derived, view.years), view.quarters)
           /\ (view.years = {} /\ view.quarters = {} /\ view.months = {}) =>
                 out.index = input_df.index

\* No quarter was chosen while the years and months chosen kept one row of
\* two.
C15_Witness ==
    /\ FilterRan
    /\ view.quarters = {}
    /\ view.years # {}
    /\ view.months # {}
    /\ Len(input_df.rows) = 2
    /\ Len(view.filtered.df.rows) = 1

\* The rows of the input that pass the year and quarter stages.
AfterYearAndQuarter ==
    { k \in 1 .. Len(input_df.rows) : Passes(k, view.years, view.quarters, {}) }

\* C16: the months offered are exactly the months (NaN apart) of the rows
\* that remain after the year and quarter selections, and choosing any one
\* offered month alone keeps at least one row.
C16_MonthOptionsFromNarrowedTable ==
    FilterRan =>
       /\ ToSet(view.filtered.available_months) =
             { MonthOfRow(k) : k \in AfterYearAndQuarter } \ {NaN}
       /\ \A m \in ToSet(view.filtered.available_months) :
             FilterWidget_render(input_df, view.years, view.quarters, {m}).df.rows # <<>>

\* The table has two months, one of them on a row without a date's year, and
\* after a year was chosen only one month is offered.
C16_Witness ==
    /\ FilterRan
    /\ view.years # {}
    /\ Len(view.filtered.available_months) = 1
    /\ Cardinality({ MonthOfRow(k) : k \in 1 .. Len(input_df.rows) }) = 2

\* The rows of the input that pass the year stage.
AfterYear == { k \in 1 .. Len(input_df.rows) : Passes(k, view.years, {}, {}) }

\* C17: a quarter is offered only if a row that remains after the year
\* selection has that quarter.
C17_QuarterOptionsFromNarrowedTable ==
    FilterRan =>
       ToSet(view.filtered.quarter_options) \subseteq { QuarterOfRow(k) : k \in AfterYear }

\* C18: on a table without a date column the widget returns the table as it
\* got it, the same columns, rows and labels, and writes its warning.
C18_NoDateColumnNoop ==
    (view.pass = "filter" /\ ~HasDate(input_df)) =>
       /\ view.filtered.df = input_df
       /\ view.filtered.warning = DateWarning
       /\ \A c \in {"year", "quarter", "month"} : ~InKeys(c, view.filtered.df.cols)

\* The widget has rendered a two-row table without a date column.
C18_Witness ==
    /\ view.pass = "filter"
    /\ ~HasDate(input_df)
    /\ Len(input_df.rows) = 2
    /\ view.filtered.df.rows = input_df.rows

----------------------------------------------------------------------------
(* Grouping: claims C19 and C20. *)

\* An AggregationTab has shown a grouped table.
Grouped == view.pass = "aggregation" /\ view.shown = GroupedMsg

\* C19: grouping by one column, the sums of the groups add up to the sum of
\* the measure over the filtered rows, and the rows without a value in the
\* grouping column form a group of their own.
C19_GroupingConservesMeasure ==
    (Grouped /\ Len(view.group_cols) = 1) =>
       LET by == view.group_cols[1]
           rows == view.filtered.df.rows
       IN  /\ SumNominal(view.grouped.rows) = SumNominal(rows)
           /\ (\E k \in 1 .. Len(rows) : rows[k][by] = "NaN") =>
                 (\E n \in 1 .. Len(view.grouped.rows) : view.grouped.rows[n][by] = "NaN")

\* Two rows, one of them without a region, were grouped by region into two
\* groups.
C19_Witness ==
    /\ Grouped
    /\ view.group_cols = <<"region">>
    /\ Len(view.filtered.df.rows) = 2
    /\ Len(view.grouped.rows) = 2
    /\ \E n \in 1 .. 2 : view.grouped.rows[n]["region"] = "NaN"

\* C20: the same filtered table grouped by the same columns chosen in
\* another order has the same set of (key, sum) rows.
C20_GroupingOrderIndependent ==
    Grouped =>
       \A other \in Picks(view.group_cols) :
          Len(other) = Len(view.group_cols) =>
             ToSet(groupby_sum(view.filtered.df, other).rows) = ToSet(view.grouped.rows)

\* Two columns were chosen, and chosen the other way round the two groups
\* come in the other order.
C20_Witness ==
    /\ Grouped
    /\ view.group_cols = <<"region", "desk">>
    /\ Len(view.grouped.rows) = 2
    /\ groupby_sum(view.filtered.df, <<"desk", "region">>).rows[1] = view.grouped.rows[2]

\* The position in the filtered table of the first row with the key of
\* grouped row n.
FirstAppearance(n) ==
    LET rows == view.filtered.df.rows
        key == KeyOf(view.grouped.rows[n], view.group_cols)
    IN  CHOOSE k \in 1 .. Len(rows) :
           /\ KeyOf(rows[k], view.group_cols) = key
           /\ \A j \in 1 .. (k - 1) : KeyOf(rows[j], view.group_cols) # key

\* C21: the rows of the grouped table come in the order in which their keys
\* first appear in the filtered table.
C21_GroupsInFirstAppearanceOrder ==
    Grouped =>
       \A a \in 1 .. Len(view.grouped.rows) : \A b \in 1 .. Len(view.grouped.rows) :
          a < b => FirstAppearance(a) < FirstAppearance(b)

\* C22: on a table without the nominal column the tab reports the missing
\* column, whatever else holds of the table (no rows, no rows left after the
\* filter), and neither offers grouping columns nor groups.
C22_MissingNominalReportedFirst ==
    (view.pass = "aggregation" /\ ~InKeys("nominal", input_df.cols)) =>
       /\ view.shown = NoNominalMsg
       /\ view.group_cols = <<>>
       /\ view.grouped = EmptyTable

----------------------------------------------------------------------------
(* Identity of sheets and tabs: claims C26 and C29. *)

\* C26: after the "X" of a sheet other than the active one, the active
\* sheet is the sheet that was active before: the same list of tabs.
C26_DeleteOtherSheetKeepsActive ==
    [][\A i \in IndexInputs :
          (DeleteSheetClick(i) /\ i # active_sheet_idx) =>
             /\ InRange(active_sheet_idx', sheets')
             /\ sheets'[active_sheet_idx' + 1] = sheets[active_sheet_idx + 1]]_vars

\* The tabs of all sheets, one sheet after the other.
RECURSIVE AllTabs(_)
AllTabs(ss) == IF ss = <<>> THEN <<>> ELSE Head(ss) \o AllTabs(Tail(ss))

\* The tabs of all sheets.
TabsOf(ss) == UNION { ToSet(ss[k]) : k \in 1 .. Len(ss) }

\* C29: the tabs in the sheets have pairwise distinct identity tokens, so
\* each is at one position of one sheet; and a step only keeps tabs or adds
\* one with a token never handed out before, so a removed tab never comes
\* back.
C29_TabsUniqueAndNeverReappear ==
    /\ [](\A s \in 1 .. Len(sheets) : \A t \in 1 .. Len(sheets[s]) :
            /\ sheets[s][t].tab_id < next_tab_id
            /\ \A u \in 1 .. Len(sheets) : \A v \in 1 .. Len(sheets[u]) :
                  sheets[s][t].tab_id = sheets[u][v].tab_id => s = u /\ t = v)
    /\ [][/\ next_tab_id' >= next_tab_id
          /\ \A s \in 1 .. Len(sheets') : \A t \in 1 .. Len(sheets'[s]) :
                \/ sheets'[s][t] \in TabsOf(sheets)
                \/ sheets'[s][t].tab_id >= next_tab_id]_vars

\* Three tabs have been created and a deletion has just left two of them,
\* with two or more sheets.
C29_Witness ==
    /\ last.op \in {"delete_tab", "delete_sheet"}
    /\ last.valid
    /\ Len(AllTabs(sheets)) = 2
    /\ next_tab_id = 3
    /\ Len(sheets) >= 2

----------------------------------------------------------------------------
(* The registry and the shared store: claims C23 and C28. *)

\* C23: discover_tabs called again leaves the registered names as they were,
\* in the same order and each once, and no operation on sheets, tabs or the
\* store changes them.
C23_DiscoveryIdempotent ==
    /\ [](\A a \in 1 .. Len(tab_classes) : \A b \in 1 .. Len(tab_classes) :
            tab_classes[a] = tab_classes[b] => a = b)
    /\ [][tab_classes' = tab_classes]_vars

\* discover_tabs has just been called again in a session that has a tab and
\* a stored source.
C23_Witness ==
    /\ last.op = "discover_tabs"
    /\ Len(AllTabs(sheets)) > 0
    /\ Len(data_map) > 0

\* The operations of SheetManager.
SheetOps == {"add_sheet", "delete_sheet", "add_tab", "delete_tab"}

----------------------------------------------------------------------------
(* Rendering and the store: claim C27. *)

\* C27: rendering a plot or aggregation tab, with its FilterWidget, leaves
\* the dict as it was, and every stored table is the table that was read
\* when it was ingested: no year, quarter or month column, no parsed date,
\* no row dropped.
C27_RenderLeavesStore ==
    /\ [](Values(data_map) = ingested)
    /\ [][last'.op \in {"render_plot", "render_aggregation"} => data_map' = data_map]_vars

\* A tab has just rendered the one stored table, which has a date column,
\* with a year chosen in its FilterWidget.
C27_Witness ==
    /\ last.op \in {"render_plot", "render_aggregation"}
    /\ Len(data_map) = 1
    /\ HasDate(data_map[1].df)
    /\ view.years # {}
    /\ Len(view.filtered.df.rows) > 0

----------------------------------------------------------------------------
(* Script runs: claims C24 and C25. *)

\* C24: after every script run the tabs whose render was called are the tabs
\* of the active sheet, each once and in the sheet's order, the title of the
\* k-th is k, its kind and the first 8 characters of its token, and with no
\* sheet the empty-workspace message is written and no tab rendered.
C24_RenderActiveSheetInOrder ==
    IF Len(sheets) = 0
    THEN rendered = Rendered("No sheets to display.", <<>>, <<>>)
    ELSE LET tabs == get_tabs_in_sheet(sheets, active_sheet_idx)
         IN  /\ rendered.calls = [k \in 1 .. Len(tabs) |-> tabs[k].tab_id]
             /\ rendered.titles =
                   [k \in 1 .. Len(tabs) |->
                      Title(k, tabs[k].kind, Prefix8(tabs[k].tab_id))]

\* C25: a script run that brings no new file leaves the number of stored
\* sources and the aggregate's row count as they were, whatever the
\* uploaders still hold.
C25_RerunAddsNoSource ==
    [][last'.op # "upload" =>
         /\ Len(data_map') = Len(data_map)
         /\ Len(aggregate_data(variant, data_map').df.rows)
               = Len(aggregate_data(variant, data_map).df.rows)]_vars

====
